---- MODULE Spec2Model ----
(***************************************************************************)
(* A model of flocker/node/_diagnostics.py: the platform registry          *)
(* (current_distribution), the two service managers, the two log           *)
(* exporters, and FlockerDebugArchive.create() run by two builder          *)
(* instances that share one working-directory name.                        *)
(***************************************************************************)
EXTENDS Integers, Sequences, FiniteSets, TLC

VARIABLES
    fs,        \* regular files: path -> content
    dirs,      \* directories that exist
    units,     \* what the host's service listing command prints
    self,      \* per builder: the collaborators it was constructed with
    pc,        \* per builder: position inside create()
    frame,     \* per builder: the locals of its create() call
    outcome,   \* per builder: what create() returned or raised
    log,       \* per builder: the steps create() has executed, in order
    call,      \* the call of a library function under test
    result     \* what that call returned or raised

vars == <<fs, dirs, units, self, pc, frame, outcome, log, call, result>>

None == [none |-> TRUE]

(***************************************************************************)
(* Python string primitives, computed character by character.              *)
(***************************************************************************)
Char(s, i) == SubSeq(s, i, i)

IsSpace(c) == c \in {" ", "\t"}

startswith(s, prefix) ==
    /\ Len(s) >= Len(prefix)
    /\ SubSeq(s, 1, Len(prefix)) = prefix

UpperCase == <<"A", "B", "C", "D", "E", "F", "G", "H", "I", "J", "K", "L", "M",
               "N", "O", "P", "Q", "R", "S", "T", "U", "V", "W", "X", "Y", "Z">>
LowerCase == <<"a", "b", "c", "d", "e", "f", "g", "h", "i", "j", "k", "l", "m",
               "n", "o", "p", "q", "r", "s", "t", "u", "v", "w", "x", "y", "z">>

LowerChar(c) ==
    IF \E i \in 1..26 : UpperCase[i] = c
    THEN LowerCase[CHOOSE i \in 1..26 : UpperCase[i] = c]
    ELSE c

RECURSIVE lower(_)
lower(s) ==
    IF s = "" THEN ""
    ELSE LowerChar(Char(s, 1)) \o lower(SubSeq(s, 2, Len(s)))

RECURSIVE rstrip(_)
rstrip(s) ==
    IF s = "" THEN ""
    ELSE IF IsSpace(Char(s, Len(s))) THEN rstrip(SubSeq(s, 1, Len(s) - 1))
    ELSE s

\* The first position >= i of s that holds no whitespace (Len(s)+1 if none).
RECURSIVE SkipSpace(_, _)
SkipSpace(s, i) ==
    IF i > Len(s) THEN i
    ELSE IF IsSpace(Char(s, i)) THEN SkipSpace(s, i + 1)
    ELSE i

\* The first position >= i of s that holds whitespace (Len(s)+1 if none).
RECURSIVE SkipWord(_, _)
SkipWord(s, i) ==
    IF i > Len(s) THEN i
    ELSE IF IsSpace(Char(s, i)) THEN i
    ELSE SkipWord(s, i + 1)

\* str.split(None, 1): at most two fields, cut at the first whitespace run;
\* leading whitespace is dropped, and so is a whitespace-only remainder.
split1(s) ==
    LET i == SkipSpace(s, 1) IN
    IF i > Len(s) THEN <<>>
    ELSE LET j == SkipWord(s, i)
             k == SkipSpace(s, j)
         IN  IF k > Len(s) THEN <<SubSeq(s, i, j - 1)>>
             ELSE <<SubSeq(s, i, j - 1), SubSeq(s, k, Len(s))>>

\* The first position >= i of s that holds a line break (Len(s)+1 if none).
RECURSIVE LineEnd(_, _)
LineEnd(s, i) ==
    IF i > Len(s) THEN i
    ELSE IF Char(s, i) = "\n" THEN i
    ELSE LineEnd(s, i + 1)

\* str.splitlines(): the lines without their line breaks.
RECURSIVE splitlines(_)
splitlines(s) ==
    IF s = "" THEN <<>>
    ELSE LET n == LineEnd(s, 1)
         IN  <<SubSeq(s, 1, n - 1)>> \o splitlines(SubSeq(s, n + 1, Len(s)))

(***************************************************************************)
(* The distribution registry and current_distribution().                   *)
(***************************************************************************)
Distribution(name, version, service_manager, log_exporter) ==
    [name |-> name, version |-> version,
     service_manager |-> service_manager, log_exporter |-> log_exporter]

DISTRIBUTIONS ==
    << Distribution("centos", "7", "SystemdServiceManager", "JournaldLogExporter"),
       Distribution("fedora", "22", "SystemdServiceManager", "JournaldLogExporter"),
       Distribution("ubuntu", "14.04", "UpstartServiceManager", "UpstartLogExporter") >>

DistributionLabel(p) == p.name \o "-" \o p.version

\* The dict of the source: label -> Distribution.
DISTRIBUTION_BY_LABEL ==
    [label \in {DistributionLabel(DISTRIBUTIONS[i]) : i \in DOMAIN DISTRIBUTIONS} |->
        LET i == CHOOSE j \in DOMAIN DISTRIBUTIONS :
                     DistributionLabel(DISTRIBUTIONS[j]) = label
        IN  DISTRIBUTIONS[i]]

UnsupportedDistribution(distribution) ==
    [type |-> "UnsupportedDistribution", distribution |-> distribution]

\* The label current_distribution() computes from platform.dist().
CurrentDistributionLabel(dist) == lower(dist[1]) \o "-" \o dist[2]

\* A lookup by equality of labels, against which the prefix rule is checked.
MatchingLabelsEq(label) == {l \in DOMAIN DISTRIBUTION_BY_LABEL : label = l}

\* The registered labels the loop of current_distribution() may stop at.
MatchingLabels(label) == {l \in DOMAIN DISTRIBUTION_BY_LABEL : startswith(label, l)}

\* What platform.dist() may report: (name, version, nickname).
DistNames == {"centos", "CentOS", "fedora", "Fedora", "Ubuntu", "ubuntu",
              "debian", "redhat", ""}
DistVersions == {"7", "7.1.1503", "70", "22", "21", "14.04", "14.04.3", "14.10",
                 "8", "6.5", ""}
DistNicknames == {"", "Core"}

\* current_distribution(): dict order is unspecified, so any registered label
\* that is a prefix may be the one returned; with none, the for/else raises.
current_distribution ==
    /\ call.fn = "current_distribution"
    /\ result = None
    /\ LET label == CurrentDistributionLabel(call.dist) IN
       IF MatchingLabels(label) # {}
       THEN \E l \in MatchingLabels(label) :
                result' = [returned |-> DISTRIBUTION_BY_LABEL[l]]
       ELSE result' = [raised |-> UnsupportedDistribution(label)]
    /\ UNCHANGED <<fs, dirs, units, self, pc, frame, outcome, log, call>>

(***************************************************************************)
(* The service managers.  all_services() is a generator: its state is the  *)
(* lines of the listing not yet consumed, and each next() yields a pair,   *)
(* raises ValueError on a line that does not unpack to two fields, or      *)
(* stops.                                                                  *)
(***************************************************************************)
Yield(name, status, rest) ==
    [tag |-> "yield", service_name |-> name, service_status |-> status, rest |-> rest]
RaiseValueError == [tag |-> "raise", error |-> "ValueError"]
ValueError == [type |-> "ValueError", from |-> "all_services"]
StopIteration == [tag |-> "stop"]

\* One line taken by the two-name unpacking of line.split(None, 1).
Unpack(line, rest) ==
    LET parts == split1(line) IN
    IF Len(parts) = 2 THEN Yield(parts[1], parts[2], rest) ELSE RaiseValueError

\* A parser that skips a line it cannot unpack.
RECURSIVE SystemdAllServicesNextSkipping(_)
SystemdAllServicesNextSkipping(lines) ==
    IF lines = <<>> THEN StopIteration
    ELSE IF Len(split1(rstrip(Head(lines)))) = 2
         THEN Unpack(rstrip(Head(lines)), Tail(lines))
         ELSE SystemdAllServicesNextSkipping(Tail(lines))

SystemdAllServicesNext(lines) ==
    IF lines = <<>> THEN StopIteration
    ELSE Unpack(rstrip(Head(lines)), Tail(lines))

UpstartAllServicesNext(lines) ==
    IF lines = <<>> THEN StopIteration
    ELSE Unpack(Head(lines), Tail(lines))

\* re.match(r'^(?P<service_name>flocker-.+)\.service', name): the pattern is
\* anchored at the start only, and .+ is greedy, so the group ends before the
\* last ".service" that leaves it at least one character after "flocker-".
ServiceSuffixPositions(name) ==
    {p \in (Len("flocker-") + 2)..(Len(name) - Len(".service") + 1) :
        SubSeq(name, p, p + Len(".service") - 1) = ".service"}

MaxOf(S) == CHOOSE x \in S : \A y \in S : y <= x

ServicePatternMatch(name) ==
    IF startswith(name, "flocker-") /\ ServiceSuffixPositions(name) # {}
    THEN [service_name |-> SubSeq(name, 1, MaxOf(ServiceSuffixPositions(name)) - 1)]
    ELSE None

RECURSIVE SystemdFlockerServicesNext(_)
SystemdFlockerServicesNext(lines) ==
    LET r == SystemdAllServicesNext(lines) IN
    IF r.tag # "yield" THEN r
    ELSE LET match == ServicePatternMatch(r.service_name) IN
         IF match # None /\ r.service_status = "enabled"
         THEN Yield(match.service_name, r.service_status, r.rest)
         ELSE SystemdFlockerServicesNext(r.rest)

RECURSIVE UpstartFlockerServicesNext(_)
UpstartFlockerServicesNext(lines) ==
    LET r == UpstartAllServicesNext(lines) IN
    IF r.tag # "yield" THEN r
    ELSE IF startswith(r.service_name, "flocker-") THEN r
    ELSE UpstartFlockerServicesNext(r.rest)

AllServicesNext(service_manager, lines) ==
    IF service_manager = "SystemdServiceManager"
    THEN SystemdAllServicesNext(lines)
    ELSE UpstartAllServicesNext(lines)

FlockerServicesNext(service_manager, lines) ==
    IF service_manager = "SystemdServiceManager"
    THEN SystemdFlockerServicesNext(lines)
    ELSE UpstartFlockerServicesNext(lines)

GeneratorNext(service_manager, method, lines) ==
    IF method = "all_services"
    THEN AllServicesNext(service_manager, lines)
    ELSE FlockerServicesNext(service_manager, lines)

\* list(generator): the pairs yielded until it stops or raises.
RECURSIVE Drain(_, _, _, _)
Drain(service_manager, method, lines, acc) ==
    LET r == GeneratorNext(service_manager, method, lines) IN
    IF r.tag = "stop" THEN [yielded |-> acc, raised |-> None]
    ELSE IF r.tag = "raise" THEN [yielded |-> acc, raised |-> ValueError]
    ELSE Drain(service_manager, method, r.rest,
               Append(acc, <<r.service_name, r.service_status>>))

\* What `systemctl list-unit-files --no-legend` and `initctl list` may print.
SystemdLines ==
    {"flocker-control.service enabled",
     "flocker-agent.service disabled",
     "flocker-dataset-agent.service                  enabled ",
     "flocker-control.service.timer enabled",
     "other.service enabled",
     "docker.socket static",
     "flocker-container-agent.service",
     ""}

UpstartLines ==
    {"flocker-control start/running, process 1234",
     "flocker-dataset-agent stop/waiting",
     "flocker-worker (1) start/running, process 77",
     "nginx running",
     "flocker-container-agent ",
     ""}

ListingLines(service_manager) ==
    IF service_manager = "SystemdServiceManager" THEN SystemdLines ELSE UpstartLines

MaxLines == 3

\* Every output of at most n lines, each ended by a line break.
RECURSIVE Outputs(_, _)
Outputs(L, n) ==
    IF n = 0 THEN {""}
    ELSE LET S == Outputs(L, n - 1) IN S \cup {l \o "\n" \o o : l \in L, o \in S}

ServiceManagers == {"SystemdServiceManager", "UpstartServiceManager"}

\* list(manager.all_services()) and list(manager.flocker_services()) on the
\* output the listing command printed.
all_services ==
    /\ call.fn = "all_services"
    /\ result = None
    /\ result' = Drain(call.service_manager, "all_services",
                       splitlines(call.output), <<>>)
    /\ UNCHANGED <<fs, dirs, units, self, pc, frame, outcome, log, call>>

flocker_services ==
    /\ call.fn = "flocker_services"
    /\ result = None
    /\ result' = Drain(call.service_manager, "flocker_services",
                       splitlines(call.output), <<>>)
    /\ UNCHANGED <<fs, dirs, units, self, pc, frame, outcome, log, call>>

(***************************************************************************)
(* The filesystem, and the library calls that act on it.                   *)
(***************************************************************************)
\* File contents: plain bytes, or a gzip stream of bytes.
Plain(data) == [plain |-> data]
Gzip(data) == [gzip |-> data]

IsFile(f, path) == path \in DOMAIN f

Under(path, dir) == startswith(path, dir \o "/")

WriteFile(f, path, data) == (path :> data) @@ f

\* gzip_file without the os.path.isfile test: opening an absent source raises.
gzip_fileUnchecked(f, source_path, archive_path) ==
    IF IsFile(f, source_path)
    THEN [fs |-> WriteFile(f, archive_path, Gzip(f[source_path])), raised |-> None]
    ELSE [fs |-> WriteFile(f, archive_path, Gzip(Plain(""))),
          raised |-> [type |-> "IOError", from |-> source_path]]

\* gzip_file: the archive is opened (created) first, and the source is copied
\* into it only if it is a file.
gzip_file(f, source_path, archive_path) ==
    [fs |-> WriteFile(f, archive_path,
                      Gzip(IF IsFile(f, source_path) THEN f[source_path] ELSE Plain(""))),
     raised |-> None]

\* shutil.rmtree(path): the directory and everything under it.
rmtree(f, path) == [p \in {q \in DOMAIN f : ~Under(q, path)} |-> f[p]]

dirname(path) ==
    LET cuts == {i \in 1..Len(path) : Char(path, i) = "/"}
    IN  SubSeq(path, 1, MaxOf(cuts) - 1)

basename(path) ==
    LET cuts == {i \in 1..Len(path) : Char(path, i) = "/"}
    IN  SubSeq(path, MaxOf(cuts) + 1, Len(path))

\* The process's working directory, and os.path.abspath / os.path.join.
cwd == "/root"
abspath(path) == IF startswith(path, "/") THEN path ELSE cwd \o "/" \o path
join(a, b) == a \o "/" \o b

\* shutil.make_archive(base_name, 'tar', root_dir, base_dir): the tar is
\* written at abspath(base_name) + ".tar"; its members are the files under
\* root_dir/base_dir, named relative to root_dir.
TarPath(base_name) == abspath(base_name) \o ".tar"

TarMembers(f, root_dir, base_dir) ==
    LET inside == {q \in DOMAIN f : Under(q, join(root_dir, base_dir))}
    IN  [m \in {SubSeq(q, Len(root_dir) + 2, Len(q)) : q \in inside} |->
            f[join(root_dir, m)]]

make_archive(f, base_name, root_dir, base_dir) ==
    WriteFile(f, TarPath(base_name),
              [tar |-> TarMembers(f, root_dir, base_dir), top |-> base_dir])

(***************************************************************************)
(* External commands.  check_call / check_output raise CalledProcessError  *)
(* on a non-zero status.  With shell=True and "a | b", the status the      *)
(* shell reports is that of the last command of the pipeline.              *)
(***************************************************************************)
ExitStatuses == {0, 1}

Cmd(cmd, status) == [cmd |-> cmd, status |-> status]

CalledProcessError(cmd, status) ==
    [type |-> "CalledProcessError", from |-> cmd, returncode |-> status]

ShellStatus(cmds) == cmds[Len(cmds)].status

CheckCall(cmd, status) ==
    IF status # 0 THEN CalledProcessError(cmd, status) ELSE None

(***************************************************************************)
(* The log exporters.  Each returns the filesystem it leaves, the error it *)
(* raises (None if it returns) and the commands it ran.                    *)
(***************************************************************************)
JournalFlockerCmd(service_name) ==
    "journalctl --all --output cat --unit " \o service_name \o ".service"
JournalAllCmd == "journalctl --all --boot"

\* What a journalctl | gzip pipeline leaves in its stdout file.
PipeOutput(cmd, jstatus, gstatus) ==
    IF gstatus # 0 THEN Plain("")
    ELSE Gzip(Plain(IF jstatus = 0 THEN "output of " \o cmd ELSE ""))

\* export_flocker without the placeholder for the start-up log.
JournaldExportFlockerNoStartup(f, service_name, target_path, jstatus, gstatus) ==
    LET cmd  == JournalFlockerCmd(service_name)
        cmds == <<Cmd(cmd, jstatus), Cmd("gzip", gstatus)>>
        f2   == WriteFile(f, abspath(target_path \o "_eliot.gz"),
                          PipeOutput(cmd, jstatus, gstatus))
    IN  [fs |-> f2, cmds |-> cmds,
         raised |-> CheckCall(cmd \o " | gzip", ShellStatus(cmds))]

JournaldExportFlocker(f, service_name, target_path, jstatus, gstatus) ==
    LET cmd  == JournalFlockerCmd(service_name)
        cmds == <<Cmd(cmd, jstatus), Cmd("gzip", gstatus)>>
        f1   == WriteFile(f, abspath(target_path \o "_startup.gz"), Plain(""))
        f2   == WriteFile(f1, abspath(target_path \o "_eliot.gz"),
                          PipeOutput(cmd, jstatus, gstatus))
    IN  [fs |-> f2, cmds |-> cmds,
         raised |-> CheckCall(cmd \o " | gzip", ShellStatus(cmds))]

JournaldExportAll(f, target_path, jstatus, gstatus) ==
    LET cmds == <<Cmd(JournalAllCmd, jstatus), Cmd("gzip", gstatus)>>
        f1   == WriteFile(f, abspath(target_path \o ".gz"),
                          PipeOutput(JournalAllCmd, jstatus, gstatus))
    IN  [fs |-> f1, cmds |-> cmds,
         raised |-> CheckCall(JournalAllCmd \o " | gzip", ShellStatus(cmds))]

UpstartLogPath(service_name) == "/var/log/upstart/" \o service_name \o ".log"
FlockerLogPath(service_name) == "/var/log/flocker/" \o service_name \o ".log"
SyslogPath == "/var/log/syslog"

UpstartExportFlocker(f, service_name, target_path) ==
    LET r1 == gzip_file(f, UpstartLogPath(service_name),
                        abspath(target_path \o "_startup.gz"))
    IN  IF r1.raised # None THEN [fs |-> r1.fs, cmds |-> <<>>, raised |-> r1.raised]
        ELSE LET r2 == gzip_file(r1.fs, FlockerLogPath(service_name),
                                 abspath(target_path \o "_eliot.gz"))
             IN  [fs |-> r2.fs, cmds |-> <<>>, raised |-> r2.raised]

UpstartExportAll(f, target_path) ==
    LET r == gzip_file(f, SyslogPath, abspath(target_path \o ".gz"))
    IN  [fs |-> r.fs, cmds |-> <<>>, raised |-> r.raised]

LogExporters == {"JournaldLogExporter", "UpstartLogExporter"}

ExportFlocker(log_exporter, f, service_name, target_path, jstatus, gstatus) ==
    IF log_exporter = "JournaldLogExporter"
    THEN JournaldExportFlocker(f, service_name, target_path, jstatus, gstatus)
    ELSE UpstartExportFlocker(f, service_name, target_path)

ExportAll(log_exporter, f, target_path, jstatus, gstatus) ==
    IF log_exporter = "JournaldLogExporter"
    THEN JournaldExportAll(f, target_path, jstatus, gstatus)
    ELSE UpstartExportAll(f, target_path)

(***************************************************************************)
(* FlockerDebugArchive.  The two instances modelled are constructed on the *)
(* same host at the same clock reading, so they compute the same suffix    *)
(* and the same working directory (instances with different suffixes work  *)
(* on disjoint paths and do not interact).                                 *)
(***************************************************************************)
Builders == {"b1", "b2"}

gethostname == "node1"
time == "1446465015.12"
flocker_version == "1.5.0"

suffix == gethostname \o "_" \o time
archive_name == "clusterhq_flocker_logs_" \o suffix
archive_path == abspath(archive_name)

logfile_path(name) == join(archive_name, name)

\* The (service manager, log exporter) pairs a builder is constructed with.
Collaborators ==
    {[service_manager |-> DISTRIBUTIONS[i].service_manager,
      log_exporter |-> DISTRIBUTIONS[i].log_exporter] : i \in DOMAIN DISTRIBUTIONS}

\* The statement sequence of the try block, then the finally clause.
Steps == <<"flocker-version", "flocker_services", "export_flocker", "export_all",
           "service-status", "docker-version", "docker-info", "uname",
           "os-release", "make_archive", "rmtree">>

StepIndex(step) == CHOOSE i \in DOMAIN Steps : Steps[i] = step
NextStep(step) == Steps[StepIndex(step) + 1]

\* An exception that leaves create() at once, with no finally clause run.
AfterRaiseNoFinally(step) == "raised"
\* An exception that is swallowed: the next statement runs.
AfterRaiseSwallowed(step) == NextStep(step)
\* An exception raised inside the try block passes control to the finally
\* clause.
AfterRaise(step) == "rmtree"

Entry(step, arg, cmds) == [step |-> step, arg |-> arg, cmds |-> cmds]

IOError(step) == [type |-> "IOError", from |-> step]
OSError(step) == [type |-> "OSError", from |-> step]

NewFrame == [services |-> None, archive_path |-> None, exc |-> None]

\* What the listing command of a service manager may print during create().
ListingCmd(service_manager) ==
    IF service_manager = "SystemdServiceManager"
    THEN "systemctl list-unit-files --no-legend" ELSE "initctl list"

CreateListings(service_manager) ==
    IF service_manager = "SystemdServiceManager"
    THEN {"",
          "flocker-control.service enabled\nflocker-agent.service disabled\nother.service enabled\n",
          "flocker-control.service   enabled \nflocker-dataset-agent.service enabled\n",
          "flocker-control.service enabled\nflocker-container-agent.service\n",
          "flocker-control.service enabled\nflocker-agent.service.timer enabled\n"}
    ELSE {"nginx running\n",
          "flocker-control start/running, process 1234\nnginx running\n",
          "flocker-control start/running, process 1234\nflocker-dataset-agent stop/waiting \n",
          "flocker-worker (1) start/running, process 77\nflocker-worker (2) start/running, process 78\n",
          "flocker-control start/running, process 1234\n\n"}

\* One statement of the try block, run by builder b at `step`.  `ok` is
\* whether its own file operations succeeded, `raised` the error of what it
\* called, `f` and `fr` the filesystem and the locals it leaves, `next` the
\* statement that follows it.
Collect(b, step, next, ok, f, fr, raised, entry) ==
    LET e == IF ~ok THEN IOError(step) ELSE raised IN
    /\ pc[b] = step
    /\ log' = [log EXCEPT ![b] = Append(@, entry)]
    /\ fs' = IF ok THEN f ELSE fs
    /\ frame' = [frame EXCEPT ![b] = IF e # None THEN [@ EXCEPT !.exc = e] ELSE fr]
    /\ pc' = [pc EXCEPT ![b] = IF e # None THEN AfterRaise(step) ELSE next]
    /\ UNCHANGED <<dirs, units, self, outcome, call, result>>

\* os.makedirs raised with the call inside the try block: the finally clause
\* runs.
MakedirsRaisedInsideTry(b) ==
    /\ pc' = [pc EXCEPT ![b] = "rmtree"]
    /\ frame' = [frame EXCEPT ![b].exc = OSError("makedirs")]
    /\ UNCHANGED <<fs, dirs, outcome>>

\* os.makedirs raised (the directory exists, or any other OSError): the call
\* is outside the try block, so the error leaves create() at once.
MakedirsRaised(b) ==
    /\ pc' = [pc EXCEPT ![b] = "raised"]
    /\ outcome' = [outcome EXCEPT ![b] = [raised |-> OSError("makedirs")]]
    /\ UNCHANGED <<fs, dirs, frame>>

\* create(), line 83.
Makedirs(b) ==
    /\ pc[b] = "start"
    /\ log' = [log EXCEPT ![b] = Append(@, Entry("makedirs", archive_path, <<>>))]
    /\ \E ok \in BOOLEAN :
         IF ok /\ archive_path \notin dirs
         THEN /\ dirs' = dirs \cup {archive_path}
              /\ pc' = [pc EXCEPT ![b] = Steps[1]]
              /\ UNCHANGED <<fs, frame, outcome>>
         ELSE MakedirsRaised(b)
    /\ UNCHANGED <<units, self, call, result>>

\* Lines 86-87.
FlockerVersion(b) ==
    \E ok \in BOOLEAN :
        Collect(b, "flocker-version", "flocker_services", ok,
                WriteFile(fs, abspath(logfile_path("flocker-version")),
                          Plain(flocker_version \o "\n")),
                frame[b], None, Entry("flocker-version", "", <<>>))

\* Lines 90-91, the first next() of the generator: check_output runs the
\* listing command and the output is split into lines.
FlockerServices(b) ==
    LET cmd == ListingCmd(self[b].service_manager) IN
    \E status \in ExitStatuses :
        Collect(b, "flocker_services", "export_flocker", TRUE, fs,
                [frame[b] EXCEPT !.services = splitlines(units)],
                CheckCall(cmd, status),
                Entry("flocker_services", IF status = 0 THEN units ELSE "",
                      <<Cmd(cmd, status)>>))

\* Lines 91-95, one turn of the loop: next() of the generator, then
\* export_flocker for the pair it yields.
ExportFlockerStep(b) ==
    LET r == FlockerServicesNext(self[b].service_manager, frame[b].services) IN
    /\ pc[b] = "export_flocker"
    /\ IF r.tag = "stop"
       THEN /\ pc' = [pc EXCEPT ![b] = "export_all"]
            /\ UNCHANGED <<fs, dirs, units, self, frame, outcome, log, call, result>>
       ELSE IF r.tag = "raise"
       THEN Collect(b, "export_flocker", "export_flocker", TRUE, fs, frame[b],
                    ValueError, Entry("next", "", <<>>))
       ELSE \E ok \in BOOLEAN,
               jstatus \in IF self[b].log_exporter = "JournaldLogExporter"
                           THEN ExitStatuses ELSE {0},
               gstatus \in IF self[b].log_exporter = "JournaldLogExporter"
                           THEN ExitStatuses ELSE {0} :
              LET x == ExportFlocker(self[b].log_exporter, fs, r.service_name,
                                     logfile_path(r.service_name), jstatus, gstatus)
              IN  Collect(b, "export_flocker", "export_flocker", ok, x.fs,
                          [frame[b] EXCEPT !.services = r.rest], x.raised,
                          Entry("export_flocker", r.service_name,
                                IF ok THEN x.cmds ELSE <<>>))

\* Line 97.
ExportAllStep(b) ==
    \E ok \in BOOLEAN,
       jstatus \in IF self[b].log_exporter = "JournaldLogExporter"
                   THEN ExitStatuses ELSE {0},
       gstatus \in IF self[b].log_exporter = "JournaldLogExporter"
                   THEN ExitStatuses ELSE {0} :
        LET x == ExportAll(self[b].log_exporter, fs, logfile_path("syslog"),
                           jstatus, gstatus)
        IN  Collect(b, "export_all", "service-status", ok, x.fs, frame[b], x.raised,
                    Entry("export_all", "syslog", IF ok THEN x.cmds ELSE <<>>))

\* The lines written to service-status for the pairs all_services() yielded.
RECURSIVE StatusLines(_)
StatusLines(pairs) ==
    IF pairs = <<>> THEN ""
    ELSE Head(pairs)[1] \o " " \o Head(pairs)[2] \o "\n" \o StatusLines(Tail(pairs))

\* Lines 100-103: the file is opened, the listing command run again, and one
\* line written per pair until the generator stops or raises.
ServiceStatus(b) ==
    LET cmd == ListingCmd(self[b].service_manager) IN
    \E ok \in BOOLEAN, status \in ExitStatuses :
        LET r == Drain(self[b].service_manager, "all_services",
                       splitlines(units), <<>>)
            written == IF status = 0 THEN StatusLines(r.yielded) ELSE ""
        IN  Collect(b, "service-status", "docker-version", ok,
                    WriteFile(fs, abspath(logfile_path("service-status")),
                              Plain(written)),
                    frame[b],
                    IF status # 0 THEN CheckCall(cmd, status) ELSE r.raised,
                    Entry("service-status",
                          [output |-> IF ok /\ status = 0 THEN units ELSE "",
                           yielded |-> IF ok /\ status = 0 THEN r.yielded ELSE <<>>],
                          IF ok THEN <<Cmd(cmd, status)>> ELSE <<>>))

\* Lines 106-113: the output file is opened, then the command runs.
Docker(b, step, next, cmd) ==
    \E ok \in BOOLEAN, status \in ExitStatuses :
        Collect(b, step, next, ok,
                WriteFile(fs, abspath(logfile_path(step)),
                          Plain(IF status = 0 THEN "output of " \o cmd ELSE "")),
                frame[b], CheckCall(cmd, status),
                Entry(step, "", IF ok THEN <<Cmd(cmd, status)>> ELSE <<>>))

DockerVersion(b) == Docker(b, "docker-version", "docker-info", "docker version")
DockerInfo(b) == Docker(b, "docker-info", "uname", "docker info")

uname == <<"Linux", gethostname, "3.10.0-229.el7.x86_64", "#1 SMP", "x86_64">>

\* Line 116.
Uname(b) ==
    \E ok \in BOOLEAN :
        Collect(b, "uname", "os-release", ok,
                WriteFile(fs, abspath(logfile_path("uname")),
                          Plain(uname[1] \o " " \o uname[2] \o " " \o uname[3]
                                \o " " \o uname[4] \o " " \o uname[5])),
                frame[b], None, Entry("uname", "", <<>>))

OsReleasePath == "/etc/os-release"

\* Lines 119-121: os-release is opened for writing before /etc/os-release is
\* read.
OsRelease(b) ==
    \E ok \in BOOLEAN :
        Collect(b, "os-release", "make_archive", ok,
                WriteFile(fs, abspath(logfile_path("os-release")),
                          IF IsFile(fs, OsReleasePath) THEN fs[OsReleasePath]
                          ELSE Plain("")),
                frame[b],
                IF IsFile(fs, OsReleasePath) THEN None ELSE IOError(OsReleasePath),
                Entry("os-release", "", <<>>))

\* Lines 124-129.
MakeArchive(b) ==
    \E ok \in BOOLEAN :
        Collect(b, "make_archive", "rmtree", ok,
                make_archive(fs, archive_name, dirname(archive_path),
                             basename(archive_path)),
                [frame[b] EXCEPT !.archive_path = [path |-> TarPath(archive_name)]],
                None, Entry("make_archive", archive_name, <<>>))

\* How create() ends, lines 130-133: an error raised by the finally clause
\* replaces the error in flight; with neither, line 133 returns the path.
Finally(exc, path, rmtree_error) ==
    IF rmtree_error # None THEN [raised |-> rmtree_error]
    ELSE IF exc # None THEN [raised |-> exc]
    ELSE [returned |-> path]

\* Lines 130-133.  A failing rmtree leaves the directory, with its files or
\* without them.
Rmtree(b) ==
    /\ pc[b] = "rmtree"
    /\ log' = [log EXCEPT ![b] = Append(@, Entry("rmtree", archive_path, <<>>))]
    /\ \E ok \in BOOLEAN :
         LET end == Finally(frame[b].exc, frame[b].archive_path,
                            IF ok THEN None ELSE OSError("rmtree"))
         IN  /\ IF ok
                THEN /\ fs' = rmtree(fs, archive_path)
                     /\ dirs' = dirs \ {archive_path}
                ELSE /\ fs' \in {fs, rmtree(fs, archive_path)}
                     /\ dirs' = dirs
             /\ outcome' = [outcome EXCEPT ![b] = end]
             /\ pc' = [pc EXCEPT ![b] =
                          IF "returned" \in DOMAIN end THEN "returned" ELSE "raised"]
    /\ UNCHANGED <<units, self, frame, call, result>>

create(b) ==
    \/ Makedirs(b)
    \/ FlockerVersion(b)
    \/ FlockerServices(b)
    \/ ExportFlockerStep(b)
    \/ ExportAllStep(b)
    \/ ServiceStatus(b)
    \/ DockerVersion(b)
    \/ DockerInfo(b)
    \/ Uname(b)
    \/ OsRelease(b)
    \/ MakeArchive(b)
    \/ Rmtree(b)

\* The source logs that may exist on the host when the builders start: the
\* journald hosts keep none of these files.
SourceLogs(log_exporter) ==
    {[p \in {} |-> Plain("")]} \cup
    IF log_exporter = "JournaldLogExporter" THEN {}
    ELSE {[p \in {SyslogPath, UpstartLogPath("flocker-control"),
                  FlockerLogPath("flocker-control")} |-> Plain("log at " \o p)]}

\* Both builders run on one host, so they are given the collaborators of its
\* distribution and see its service listing.
Init ==
    /\ \E c \in Collaborators :
           /\ self = [b \in Builders |-> c]
           /\ units \in CreateListings(c.service_manager)
           /\ \E logs \in SourceLogs(c.log_exporter) :
                  fs = (OsReleasePath :> Plain("NAME=Linux\n")) @@ logs
    /\ dirs = {cwd}
    /\ pc = [b \in Builders |-> "start"]
    /\ frame = [b \in Builders |-> NewFrame]
    /\ outcome = [b \in Builders |-> None]
    /\ log = [b \in Builders |-> <<>>]
    /\ call = None
    /\ result = None

Next == \E b \in Builders : create(b)

Spec == Init /\ [][Next]_vars

(***************************************************************************)
(* The library functions on their own: each specification draws a call     *)
(* and the host state it runs on, and its actions apply the function.      *)
(***************************************************************************)
NoBuilders ==
    /\ units = ""
    /\ self = [b \in Builders |-> None]
    /\ pc = [b \in Builders |-> "start"]
    /\ frame = [b \in Builders |-> NewFrame]
    /\ outcome = [b \in Builders |-> None]
    /\ log = [b \in Builders |-> <<>>]

InitDist ==
    /\ NoBuilders
    /\ fs = <<>>
    /\ dirs = {}
    /\ call \in {[fn |-> "current_distribution", dist |-> <<n, v, k>>] :
                    n \in DistNames, v \in DistVersions, k \in DistNicknames}
    /\ result = None

SpecDist == InitDist /\ [][current_distribution]_vars

InitSvc ==
    /\ NoBuilders
    /\ fs = <<>>
    /\ dirs = {}
    /\ \E m \in ServiceManagers :
           call \in {[fn |-> f, service_manager |-> m, output |-> o] :
                        f \in {"all_services", "flocker_services"},
                        o \in Outputs(ListingLines(m), MaxLines)}
    /\ result = None

NextSvc == all_services \/ flocker_services

SpecSvc == InitSvc /\ [][NextSvc]_vars

\* UpstartLogExporter.export_flocker, export_all and gzip_file, called on a
\* host whose source logs are files, directories or absent.
upstart_export_flocker ==
    /\ call.fn = "export_flocker"
    /\ result = None
    /\ LET x == UpstartExportFlocker(fs, call.service_name, call.target_path) IN
       /\ fs' = x.fs
       /\ result' = IF x.raised # None THEN [raised |-> x.raised]
                    ELSE [returned |-> None]
    /\ UNCHANGED <<dirs, units, self, pc, frame, outcome, log, call>>

upstart_export_all ==
    /\ call.fn = "export_all"
    /\ result = None
    /\ LET x == UpstartExportAll(fs, call.target_path) IN
       /\ fs' = x.fs
       /\ result' = IF x.raised # None THEN [raised |-> x.raised]
                    ELSE [returned |-> None]
    /\ UNCHANGED <<dirs, units, self, pc, frame, outcome, log, call>>

call_gzip_file ==
    /\ call.fn = "gzip_file"
    /\ result = None
    /\ LET x == gzip_file(fs, call.source_path, call.archive_path) IN
       /\ fs' = x.fs
       /\ result' = IF x.raised # None THEN [raised |-> x.raised]
                    ELSE [returned |-> None]
    /\ UNCHANGED <<dirs, units, self, pc, frame, outcome, log, call>>

GzipSources ==
    {SyslogPath, UpstartLogPath("flocker-control"), FlockerLogPath("flocker-control")}

GzipCalls ==
    {[fn |-> "export_flocker", service_name |-> s, target_path |-> "work/" \o s] :
        s \in {"flocker-control", "flocker-dataset-agent"}}
    \cup {[fn |-> "export_all", target_path |-> "work/syslog"]}
    \cup {[fn |-> "gzip_file", source_path |-> p, archive_path |-> "/root/work/out.gz"] :
             p \in GzipSources}

InitGzip ==
    /\ NoBuilders
    /\ \E kind \in [GzipSources -> {"absent", "directory", "empty", "data"}] :
           /\ fs = [p \in {q \in GzipSources : kind[q] \in {"empty", "data"}} |->
                       Plain(IF kind[p] = "data" THEN "log at " \o p ELSE "")]
           /\ dirs = {cwd, "/root/work"} \cup {q \in GzipSources : kind[q] = "directory"}
    /\ call \in GzipCalls
    /\ result = None

NextGzip == upstart_export_flocker \/ upstart_export_all \/ call_gzip_file

SpecGzip == InitGzip /\ [][NextGzip]_vars

(***************************************************************************)
(* Properties of create().                                                 *)
(***************************************************************************)
InProgress(b) == pc[b] \notin {"start", "returned", "raised"}
Exited(b) == pc[b] \in {"returned", "raised"}
HasStep(b, step) == \E i \in DOMAIN log[b] : log[b][i].step = step
MakedirsFailed(b) == pc[b] = "raised" /\ Len(log[b]) = 1
MakedirsSucceeded(b) == Len(log[b]) >= 1 /\ ~MakedirsFailed(b)
RmtreeFailed(b) == pc[b] = "raised" /\ outcome[b] = [raised |-> OSError("rmtree")]

\* C1 as claimed: on every exit path, the working directory has been removed
\* when create() returns or raises.
C1_RemovedOnEveryExit ==
    [][\A b \in Builders :
          ~Exited(b) /\ Exited(b)' => archive_path \notin dirs']_vars

\* C1 as amended: once makedirs has succeeded, create() runs rmtree on every
\* exit path before it returns or raises, and the working directory exists
\* only while a create() that made it is in progress or after a create()
\* whose rmtree failed.
C1_CleanupOnEveryExit ==
    /\ \A b \in Builders :
           Exited(b) /\ MakedirsSucceeded(b) => HasStep(b, "rmtree")
    /\ archive_path \in dirs =>
           \E b \in Builders :
               MakedirsSucceeded(b) /\ (InProgress(b) \/ RmtreeFailed(b))
    /\ \A b \in Builders :
           pc[b] = "returned" /\ (\A c \in Builders \ {b} : ~MakedirsSucceeded(c))
               => archive_path \notin dirs

\* A collection step raised, the cleanup ran, and the directory is gone.
C1_Witness ==
    \E b \in Builders :
        /\ pc[b] = "raised"
        /\ frame[b].exc # None
        /\ HasStep(b, "rmtree")
        /\ archive_path \notin dirs

\* C2 as claimed: when a collection step raised, the error create() raises
\* is that error, whatever the cleanup did.
C2_CollectionErrorObserved ==
    \A b \in Builders :
        pc[b] = "raised" /\ frame[b].exc # None
            => outcome[b] = [raised |-> frame[b].exc]

\* The external commands C3 names (gzip is the pipeline's second half).
C3_Named(cmd) == cmd # "gzip"

\* C3 as claimed: whenever one of the invoked commands exits non-zero,
\* create() does not return an archive path.
C3_NonZeroExitIsFatal ==
    \A b \in Builders :
        pc[b] = "returned" =>
            \A i \in DOMAIN log[b] : \A j \in DOMAIN log[b][i].cmds :
                C3_Named(log[b][i].cmds[j].cmd) => log[b][i].cmds[j].status = 0

\* The order C4 states; a turn of the loop over the Flocker services is
\* logged as export_flocker, or as next when the generator raised.
C4_Order ==
    <<"makedirs", "flocker-version", "flocker_services", "export_flocker",
      "export_all", "service-status", "docker-version", "docker-info", "uname",
      "os-release", "make_archive", "rmtree">>

C4_RankOf ==
    [step \in {C4_Order[i] : i \in DOMAIN C4_Order} \cup {"next"} |->
        IF step = "next" THEN 4 ELSE CHOOSE i \in DOMAIN C4_Order : C4_Order[i] = step]

C4_Rank(step) == C4_RankOf[step]

C4_Collection == {C4_Order[i] : i \in {2, 3, 5, 6, 7, 8, 9, 10}}

\* C4: the steps run one at a time in the fixed order, none is skipped, the
\* archive is assembled only after all of them, a step that raises is the
\* last one run before the cleanup, and create() returns a path only if
\* every step ran, nothing raised and the tar was written before the cleanup.
C4_FixedOrderFailFast ==
    \A b \in Builders :
        LET L == log[b] IN
        /\ \A i \in 1..(Len(L) - 1) :
               /\ C4_Rank(L[i].step) <= C4_Rank(L[i + 1].step)
               /\ C4_Rank(L[i].step) = C4_Rank(L[i + 1].step)
                      => C4_Rank(L[i].step) = 4
        /\ \A i \in DOMAIN L : \A s \in C4_Collection :
               (C4_Rank(s) < C4_Rank(L[i].step) /\ L[i].step # "rmtree")
                   => HasStep(b, s)
        /\ HasStep(b, "make_archive") => \A s \in C4_Collection : HasStep(b, s)
        /\ frame[b].exc # None => /\ pc[b] \in {"rmtree", "raised"}
                                  /\ frame[b].archive_path = None
                                  /\ \A i \in DOMAIN L : i < Len(L) - 1 =>
                                         L[i].step \notin {"next", "make_archive"}
        /\ pc[b] = "raised" => "raised" \in DOMAIN outcome[b]
        /\ pc[b] = "returned" =>
               /\ frame[b].exc = None
               /\ \A s \in C4_Collection \cup {"make_archive", "rmtree"} : HasStep(b, s)
               /\ outcome[b] = [returned |-> [path |-> TarPath(archive_name)]]
               /\ IsFile(fs, TarPath(archive_name))

\* The third collection step (the loop) raised after two had run; nothing
\* followed it but the cleanup, and create() raised.
C4_Witness ==
    \E b \in Builders :
        /\ pc[b] = "raised"
        /\ frame[b].exc # None
        /\ HasStep(b, "export_flocker")
        /\ ~HasStep(b, "export_all")
        /\ log[b][Len(log[b])].step = "rmtree"

\* C7.  The names of the Flocker services flocker_services() yields on the
\* host's listing, and the files the archive is said to hold.
C7_YieldedOn ==
    [m \in ServiceManagers |->
        [o \in CreateListings(m) |->
            Drain(m, "flocker_services", splitlines(o), <<>>).yielded]]

C7_Yielded(b) == C7_YieldedOn[self[b].service_manager][units]

C7_Names(b) == {C7_Yielded(b)[i][1] : i \in DOMAIN C7_Yielded(b)}

C7_Fixed ==
    {"flocker-version", "syslog.gz", "service-status", "docker-version",
     "docker-info", "uname", "os-release"}

C7_PerService(b) ==
    {n \o "_startup.gz" : n \in C7_Names(b)} \cup {n \o "_eliot.gz" : n \in C7_Names(b)}

C7_Built(b) ==
    /\ pc[b] \in {"rmtree", "returned"}
    /\ frame[b].exc = None
    /\ frame[b].archive_path # None

C7_Members(b) == DOMAIN fs[frame[b].archive_path.path].tar

C7_Layout(b) ==
    /\ fs[frame[b].archive_path.path].top = archive_name
    /\ C7_Members(b) =
           {archive_name \o "/" \o n : n \in C7_Fixed \cup C7_PerService(b)}

\* C7 as claimed: the tar holds one top-level directory with exactly the
\* seven fixed files and a start-up and an eliot file per Flocker service,
\* and the per-service files number twice the services flocker_services()
\* returned.
C7_TwoFilesPerService ==
    \A b \in Builders :
        C7_Built(b) =>
            /\ C7_Layout(b)
            /\ Cardinality(C7_Members(b)) - Cardinality(C7_Fixed)
                   = 2 * Len(C7_Yielded(b))

\* C7 as amended: the same layout, and the per-service files number twice
\* the distinct service names flocker_services() returned.
C7_TwoFilesPerDistinctService ==
    \A b \in Builders :
        C7_Built(b) =>
            /\ C7_Layout(b)
            /\ Cardinality(C7_Members(b)) - Cardinality(C7_Fixed)
                   = 2 * Cardinality(C7_Names(b))

\* An archive was returned that holds the files of two Flocker services.
C7_Witness ==
    \E b \in Builders :
        /\ pc[b] = "returned"
        /\ Cardinality(C7_Names(b)) = 2
        /\ Cardinality(C7_Members(b)) = Cardinality(C7_Fixed) + 4

\* C8.  The whitespace-separated tokens of a line, counted by where they
\* start.
C8_TokenCount(line) ==
    Cardinality({i \in 1..Len(line) :
                    /\ ~IsSpace(Char(line, i))
                    /\ i = 1 \/ IsSpace(Char(line, i - 1))})

C8_AllSpace(line, from, to) == \A i \in from..to : IsSpace(Char(line, i))

\* line is: whitespace, name, a whitespace run, status (and, where the
\* manager strips it, trailing whitespace).
C8_TwoFields(line, name, status, strips) ==
    \E a \in 0..Len(line) :
        /\ C8_AllSpace(line, 1, a)
        /\ name # ""
        /\ SubSeq(line, a + 1, a + Len(name)) = name
        /\ \A i \in 1..Len(name) : ~IsSpace(Char(name, i))
        /\ \E w \in 1..Len(line) :
               LET z == Len(line) - a - Len(name) - w - Len(status) IN
               /\ z >= 0
               /\ strips \/ z = 0
               /\ C8_AllSpace(line, a + Len(name) + 1, a + Len(name) + w)
               /\ status # ""
               /\ ~IsSpace(Char(status, 1))
               /\ strips => ~IsSpace(Char(status, Len(status)))
               /\ SubSeq(line, a + Len(name) + w + 1, Len(line) - z) = status
               /\ C8_AllSpace(line, Len(line) - z + 1, Len(line))

C8_MalformedListings ==
    {o \in UNION {CreateListings(m) : m \in ServiceManagers} :
        \E i \in DOMAIN splitlines(o) : C8_TokenCount(splitlines(o)[i]) < 2}

C8_Malformed(output) == output \in C8_MalformedListings

\* The listing command ran for the loop over the Flocker services, and
\* exited with status 0.
C8_Listed(b) ==
    \E i \in DOMAIN log[b] :
        log[b][i].step = "flocker_services" /\ log[b][i].cmds[1].status = 0

\* C8: a listing with a line of fewer than two tokens makes create() raise:
\* the loop over the Flocker services never completes and no archive is
\* built; and on a listing without one, the pairs written to service-status
\* are the two fields of each line, cut at the first whitespace run.
C8_MalformedLineIsFatal ==
    \A b \in Builders :
        /\ (C8_Listed(b) /\ C8_Malformed(units))
               => /\ pc[b] \in {"export_flocker", "rmtree", "raised"}
                  /\ ~HasStep(b, "export_all")
                  /\ ~HasStep(b, "make_archive")
                  /\ pc[b] = "raised" => "raised" \in DOMAIN outcome[b]
        /\ pc[b] = "docker-version" =>
               LET e == log[b][Len(log[b])].arg
                   lines == splitlines(e.output)
               IN  /\ ~C8_Malformed(e.output)
                   /\ Len(e.yielded) = Len(lines)
                   /\ \A i \in DOMAIN lines :
                          C8_TwoFields(lines[i], e.yielded[i][1], e.yielded[i][2],
                                       self[b].service_manager = "SystemdServiceManager")

\* create() met a line of fewer than two tokens and raised ValueError.
C8_Witness ==
    \E b \in Builders :
        /\ C8_Malformed(units)
        /\ pc[b] = "raised"
        /\ outcome[b] = [raised |-> ValueError]

\* The service-status step wrote the pairs of a listing of well-formed lines.
C8_WitnessPairs ==
    \E b \in Builders :
        /\ pc[b] = "docker-version"
        /\ Len(log[b][Len(log[b])].arg.yielded) >= 2

\* C10: a create() that starts while the working directory exists raises at
\* makedirs, runs no collection step, builds no archive and leaves the
\* filesystem as it was; and the directory of a create() in progress is
\* removed by no step but its own.
C10_ExistingDirectoryUntouched ==
    [][\A b \in Builders :
          /\ (pc[b] = "start" /\ pc'[b] # "start" /\ archive_path \in dirs)
                 => /\ pc'[b] = "raised"
                    /\ outcome'[b] = [raised |-> OSError("makedirs")]
                    /\ Len(log'[b]) = 1
                    /\ fs' = fs
                    /\ dirs' = dirs
          /\ (InProgress(b) /\ archive_path \in dirs /\ archive_path \notin dirs')
                 => pc'[b] # pc[b]
          /\ (InProgress(b) /\ pc'[b] = pc[b] /\ log'[b] = log[b])
                 => /\ fs' = fs
                    /\ dirs' = dirs
          /\ MakedirsFailed(b) => UNCHANGED <<pc[b], log[b], outcome[b]>>]_vars

\* One builder is in progress and the other has failed at makedirs.
C10_Witness ==
    \E b, c \in Builders :
        /\ InProgress(c)
        /\ HasStep(c, "export_all")
        /\ MakedirsFailed(b)
        /\ archive_path \in dirs

(***************************************************************************)
(* Properties of the library functions.                                    *)
(***************************************************************************)
\* The table of the registered labels.
C5_Table ==
    [l \in {"centos-7", "fedora-22", "ubuntu-14.04"} |->
        IF l = "ubuntu-14.04"
        THEN <<"UpstartServiceManager", "UpstartLogExporter">>
        ELSE <<"SystemdServiceManager", "JournaldLogExporter">>]

\* C5: with label = lowercased name, "-", version: current_distribution()
\* returns a registered record iff a registered label is a prefix of the
\* label, the record returned is that of such a label with the pair of the
\* table, and otherwise it raises UnsupportedDistribution carrying the label.
C5_PrefixLookup ==
    (call # None /\ "dist" \in DOMAIN call /\ result # None) =>
        LET label == lower(call.dist[1]) \o "-" \o call.dist[2]
            hits == {l \in DOMAIN C5_Table : startswith(label, l)}
        IN  IF hits # {}
            THEN /\ DOMAIN result = {"returned"}
                 /\ \E l \in hits :
                        /\ result.returned.name \o "-" \o result.returned.version = l
                        /\ <<result.returned.service_manager,
                             result.returned.log_exporter>> = C5_Table[l]
            ELSE result = [raised |-> [type |-> "UnsupportedDistribution",
                                       distribution |-> label]]

\* A detected version with trailing components matched its major version.
C5_Witness ==
    /\ call # None
    /\ "dist" \in DOMAIN call
    /\ call.dist[1] = "CentOS"
    /\ call.dist[2] = "7.1.1503"
    /\ DOMAIN result = {"returned"}
    /\ result.returned.name = "centos"

\* The whole unit name has the form flocker-<suffix>.service.
C6_IsFlockerUnit(name) ==
    /\ startswith(name, "flocker-")
    /\ Len(name) > Len("flocker-") + Len(".service")
    /\ SubSeq(name, Len(name) - Len(".service") + 1, Len(name)) = ".service"

RECURSIVE C6_Expected(_)
C6_Expected(pairs) ==
    IF pairs = <<>> THEN <<>>
    ELSE IF C6_IsFlockerUnit(Head(pairs)[1]) /\ Head(pairs)[2] = "enabled"
         THEN <<<<SubSeq(Head(pairs)[1], 1, Len(Head(pairs)[1]) - Len(".service")),
                  "enabled">>>> \o C6_Expected(Tail(pairs))
         ELSE C6_Expected(Tail(pairs))

\* C6 as claimed: the Systemd flocker_services() yields, in listing order,
\* one pair for each entry of all_services() whose unit name is
\* flocker-<suffix>.service and whose status is "enabled", and nothing else;
\* the name yielded is the unit name without its .service suffix.
C6_EnabledFlockerUnitsOnly ==
    (/\ call # None
     /\ "service_manager" \in DOMAIN call
     /\ call.fn = "flocker_services"
     /\ call.service_manager = "SystemdServiceManager"
     /\ result # None
     /\ result.raised = None)
        => result.yielded =
               C6_Expected(Drain("SystemdServiceManager", "all_services",
                                 splitlines(call.output), <<>>).yielded)

\* The source and the target of each archive a call is to write.
C9_Targets ==
    IF call.fn = "export_flocker"
    THEN {<<UpstartLogPath(call.service_name), call.target_path \o "_startup.gz">>,
          <<FlockerLogPath(call.service_name), call.target_path \o "_eliot.gz">>}
    ELSE IF call.fn = "export_all"
    THEN {<<SyslogPath, call.target_path \o ".gz">>}
    ELSE {<<call.source_path, call.archive_path>>}

\* C9: whichever source logs are absent, the call returns, and each of its
\* targets is written: the gzip of its source if that is a file, an empty
\* gzip otherwise.
C9_AbsentSourceIsEmptyArchive ==
    (call # None /\ "fn" \in DOMAIN call
     /\ call.fn \in {"export_flocker", "export_all", "gzip_file"}
     /\ result # None) =>
        /\ result = [returned |-> None]
        /\ \A t \in C9_Targets :
               /\ abspath(t[2]) \in DOMAIN fs
               /\ fs[abspath(t[2])] =
                      [gzip |-> IF t[1] \in DOMAIN fs THEN fs[t[1]] ELSE [plain |-> ""]]

\* export_flocker returned with one source log absent and the other present.
C9_Witness ==
    /\ call # None
    /\ "fn" \in DOMAIN call
    /\ call.fn = "export_flocker"
    /\ result = [returned |-> None]
    /\ UpstartLogPath(call.service_name) \notin DOMAIN fs
    /\ FlockerLogPath(call.service_name) \in DOMAIN fs
    /\ fs[abspath(call.target_path \o "_startup.gz")] = [gzip |-> [plain |-> ""]]

====
